---- MODULE Spec2Model ----
(***************************************************************************)
(* Renderer of src/src/imgui_glium_renderer.rs: the texture registry       *)
(* (font_texture, textures), lookup_texture, reload_font_texture and the   *)
(* per-frame translation of a DrawData snapshot into draw calls (render).  *)
(*                                                                         *)
(* Numbers.  The f32 values of a snapshot are modelled exactly as          *)
(* rationals: display_size, display_pos and clip_rect are whole numbers,   *)
(* framebuffer_scale is a numerator over ScaleDen, so every product        *)
(* (fb_width, fb_height, the transformed clip rectangle) is a whole number *)
(* of 1/ScaleDen units.  floor and ceil are computed on those units.       *)
(***************************************************************************)
EXTENDS Integers, Sequences, FiniteSets, TLC

VARIABLES
    font_texture,  \* Renderer.font_texture
    textures,      \* Renderer.textures: identifier -> Texture
    next,          \* Textures.next, the identifier the next insert returns
    uploads,       \* the font uploads the backend was asked for, in order
    draw_data,     \* the DrawData snapshot render is given
    pc,            \* "idle", inside render ("lists", "cmds"), "returned"
    li,            \* draw list render is at (1-based)
    ci,            \* command of that list render is at (1-based)
    bufs,          \* vtx_buffer, idx_buffer of the current draw list
    target,        \* the draw calls the target surface received this frame
    callbacks,     \* the raw callbacks invoked this frame
    backend,       \* the call the backend rejected in this frame, if any
    result         \* what render returned

vars == <<font_texture, textures, next, uploads, draw_data, pc, li, ci, bufs,
          target, callbacks, backend, result>>

registry_vars == <<font_texture, textures, next, uploads>>
frame_vars == <<draw_data, pc, li, ci, bufs, target, callbacks, backend,
                result>>

----------------------------------------------------------------------------
(* Bounds *)

\* denominator of framebuffer_scale: scales are multiples of 1/ScaleDen
ScaleDen == 2
\* Textures::insert calls per behaviour
MaxInserts == 1
\* font uploads after Renderer::new
MaxUploads == 1
\* draw lists per snapshot, commands per snapshot
MaxLists == 2
MaxCmds == 3
\* vertices / indices of every draw list
VtxLen == 4
IdxLen == 6

\* usize::MAX, the identifier of the font atlas (the largest integer of the
\* model stands for the largest usize)
USIZE_MAX == 2147483647

----------------------------------------------------------------------------
(* Arithmetic on 1/ScaleDen units *)

Max(a, b) == IF a >= b THEN a ELSE b
Abs(a) == IF a < 0 THEN 0 - a ELSE a
\* f32::floor of n/ScaleDen
Floor(n) == n \div ScaleDen
\* f32::ceil of n/ScaleDen
Ceil(n) == 0 - ((0 - n) \div ScaleDen)
\* `as u32` of a whole-valued float: saturates at 0 (the model's values stay
\* below the upper end of u32)
AsU32(n) == IF n < 0 THEN 0 ELSE n

----------------------------------------------------------------------------
(* Results *)

NoId == 0 - 1
Res(tag, id) == [tag |-> tag, id |-> id]
Pending == Res("Pending", NoId)
Ok == Res("Ok", NoId)
VertexErr == Res("Vertex", NoId)
IndexErr == Res("Index", NoId)
DrawErr == Res("Draw", NoId)
BadTexture(id) == Res("BadTexture", id)
Panic == Res("Panic", NoId)

----------------------------------------------------------------------------
(* Texture registry *)

AtlasTexture(n) == [kind |-> "atlas", n |-> n]
UserTexture(n) == [kind |-> "user", n |-> n]
UserTextures == {UserTexture(1), UserTexture(2)}

\* identifiers the application passes to Textures::replace / remove
IssuedIds == 0 .. (MaxInserts - 1)
UnregisteredId == MaxInserts + 5
ReplaceIds == IssuedIds \cup {USIZE_MAX}
RemoveIds == IssuedIds \cup {USIZE_MAX, UnregisteredId}
TextureIds == IssuedIds \cup {USIZE_MAX, UnregisteredId}

NoTexture == [kind |-> "none", n |-> 0]
Found(texture) == [ok |-> TRUE, texture |-> texture, err |-> Ok]
Missing(err) == [ok |-> FALSE, texture |-> NoTexture, err |-> err]

\* the registry is asked before the sentinel is recognised
LookupRegistryFirst(font, texs, texture_id) ==
    IF texture_id \in DOMAIN texs THEN Found(texs[texture_id])
    ELSE IF texture_id = USIZE_MAX THEN Found(font)
    ELSE Missing(BadTexture(texture_id))

\* an unknown identifier falls back to the font atlas
LookupFallback(font, texs, texture_id) ==
    IF texture_id = USIZE_MAX THEN Found(font)
    ELSE IF texture_id \in DOMAIN texs THEN Found(texs[texture_id])
    ELSE Found(font)

\* the registry is never asked
LookupFontOnly(font, texs, texture_id) ==
    IF texture_id = USIZE_MAX THEN Found(font)
    ELSE Missing(BadTexture(texture_id))

\* Renderer::lookup_texture on an explicit registry
Lookup(font, texs, texture_id) ==
    IF texture_id = USIZE_MAX THEN Found(font)
    ELSE IF texture_id \in DOMAIN texs THEN Found(texs[texture_id])
    ELSE Missing(BadTexture(texture_id))

lookup_texture(texture_id) == Lookup(font_texture, textures, texture_id)

\* the map with key id bound to t (HashMap::insert)
MapPut(m, id, t) ==
    [k \in (DOMAIN m) \cup {id} |-> IF k = id THEN t ELSE m[k]]
\* the map without key id (HashMap::remove)
MapDel(m, id) == [k \in (DOMAIN m) \ {id} |-> m[k]]

\* renderer.textures().insert(t): stores t under `next`, returns it
insert(t) ==
    /\ pc = "idle"
    /\ next < MaxInserts
    /\ textures' = MapPut(textures, next, t)
    /\ next' = next + 1
    /\ UNCHANGED <<font_texture, uploads>>
    /\ UNCHANGED frame_vars

\* renderer.textures().replace(id, t)
replace(id, t) ==
    /\ pc = "idle"
    /\ textures' = MapPut(textures, id, t)
    /\ UNCHANGED <<font_texture, next, uploads>>
    /\ UNCHANGED frame_vars

\* renderer.textures().remove(id)
remove(id) ==
    /\ pc = "idle"
    /\ textures' = MapDel(textures, id)
    /\ UNCHANGED <<font_texture, next, uploads>>
    /\ UNCHANGED frame_vars

\* upload_font_texture: builds atlas number Len(uploads) and uploads it; the
\* backend may reject the texture (TextureCreationError)
upload_font_texture(ok) == [ok |-> ok, texture |-> AtlasTexture(Len(uploads))]

\* Renderer::reload_font_texture: `?` returns before the assignment when the
\* upload fails
reload_font_texture(ok) ==
    /\ pc = "idle"
    /\ Len(uploads) <= MaxUploads
    /\ uploads' = Append(uploads, upload_font_texture(ok))
    /\ font_texture' = IF ok THEN upload_font_texture(ok).texture
                       ELSE font_texture
    /\ UNCHANGED <<textures, next>>
    /\ UNCHANGED frame_vars

----------------------------------------------------------------------------
(* Draw data *)

\* DrawCmd::Elements { count, cmd_params: DrawCmdParams { clip_rect,
\* texture_id, vtx_offset, idx_offset } }
Elements(count, clip_rect, texture_id, vtx_offset, idx_offset) ==
    [kind |-> "Elements", count |-> count, clip_rect |-> clip_rect,
     texture_id |-> texture_id, vtx_offset |-> vtx_offset,
     idx_offset |-> idx_offset, callback |-> 0]
\* DrawCmd::ResetRenderState
ResetRenderState ==
    [kind |-> "ResetRenderState", count |-> 0, clip_rect |-> <<0, 0, 0, 0>>,
     texture_id |-> 0, vtx_offset |-> 0, idx_offset |-> 0, callback |-> 0]
\* DrawCmd::RawCallback { callback, raw_cmd }: the raw command still carries a
\* clip rectangle, which render never reads
RawCallback(callback, clip_rect) ==
    [kind |-> "RawCallback", count |-> 0, clip_rect |-> clip_rect,
     texture_id |-> 0, vtx_offset |-> 0, idx_offset |-> 0,
     callback |-> callback]

DrawList(cmds) == [vtx_len |-> VtxLen, idx_len |-> IdxLen, cmds |-> cmds]

DrawData(display_size, display_pos, framebuffer_scale, draw_lists) ==
    [display_size |-> display_size, display_pos |-> display_pos,
     framebuffer_scale |-> framebuffer_scale, draw_lists |-> draw_lists]

\* sequences over S of length 0 .. n
SeqUpTo(S, n) == UNION {[1 .. k -> S] : k \in 0 .. n}

----------------------------------------------------------------------------
(* Renderer::render: the arithmetic *)

\* draw_data.display_size[0] * draw_data.framebuffer_scale[0]
fb_width(dd) == dd.display_size[1] * dd.framebuffer_scale[1]
fb_height(dd) == dd.display_size[2] * dd.framebuffer_scale[2]

FrameSkippedBug(dd) == ~(fb_width(dd) > 0 \/ fb_height(dd) > 0)

\* if !(fb_width > 0.0 && fb_height > 0.0) { return Ok(()) }
FrameSkipped(dd) == ~(fb_width(dd) > 0 /\ fb_height(dd) > 0)

\* (clip_rect[i] - clip_off[i]) * clip_scale[i]
clip_rect(dd, cmd) ==
    << (cmd.clip_rect[1] - dd.display_pos[1]) * dd.framebuffer_scale[1],
       (cmd.clip_rect[2] - dd.display_pos[2]) * dd.framebuffer_scale[2],
       (cmd.clip_rect[3] - dd.display_pos[1]) * dd.framebuffer_scale[1],
       (cmd.clip_rect[4] - dd.display_pos[2]) * dd.framebuffer_scale[2] >>

SurvivesBug(dd, cr) ==
    /\ cr[1] < fb_width(dd)
    /\ cr[2] < fb_height(dd)
    /\ cr[3] > 0
    /\ cr[4] >= 0

\* the test a command passes to be drawn
Survives(dd, cr) ==
    /\ cr[1] < fb_width(dd)
    /\ cr[2] < fb_height(dd)
    /\ cr[3] >= 0
    /\ cr[4] >= 0

ScissorBug(dd, cr) ==
    [left |-> Floor(cr[1]),
     bottom |-> Floor(fb_height(dd) - cr[4]),
     width |-> AsU32(Ceil(Abs(cr[3] - cr[1]))),
     height |-> AsU32(Ceil(Abs(cr[4] - cr[2])))]

\* the extent is taken from the clamped origin
ScissorClampedExtent(dd, cr) ==
    [left |-> AsU32(Floor(Max(0, cr[1]))),
     bottom |-> AsU32(Floor(Max(0, fb_height(dd) - cr[4]))),
     width |-> AsU32(Ceil(Abs(cr[3] - Max(0, cr[1])))),
     height |-> AsU32(Ceil(Abs(cr[4] - Max(0, cr[2]))))]

\* DrawParameters.scissor
Scissor(dd, cr) ==
    [left |-> AsU32(Floor(Max(0, cr[1]))),
     bottom |-> AsU32(Floor(Max(0, fb_height(dd) - cr[4]))),
     width |-> AsU32(Ceil(Abs(cr[3] - cr[1]))),
     height |-> AsU32(Ceil(Abs(cr[4] - cr[2])))]

Addition(source, destination) ==
    [function |-> "Addition", source |-> source, destination |-> destination]

\* glium's Blend::alpha_blending()
alpha_blending ==
    [color |-> Addition("SourceAlpha", "OneMinusSourceAlpha"),
     alpha |-> Addition("SourceAlpha", "OneMinusSourceAlpha")]

BlendBug ==
    [color |-> alpha_blending.color,
     alpha |-> Addition("OneMinusSourceAlpha", "One")]

\* Blend { alpha: Addition { One, OneMinusSourceAlpha }, ..alpha_blending() }
Blend ==
    [color |-> alpha_blending.color,
     alpha |-> Addition("One", "OneMinusSourceAlpha")]

\* VertexBuffer::immutable / IndexBuffer::immutable of draw list i
VertexBuffer(dd, i) == [list |-> i, len |-> dd.draw_lists[i].vtx_len]
IndexBuffer(dd, i) == [list |-> i, len |-> dd.draw_lists[i].idx_len]
NoBufs == [vtx |-> [list |-> 0, len |-> 0], idx |-> [list |-> 0, len |-> 0]]

\* vtx_buffer.slice(vtx_offset..) and idx_buffer.slice(idx_offset..(idx_offset
\* + count)) are Some
SlicesValid(b, cmd) ==
    /\ cmd.vtx_offset <= b.vtx.len
    /\ cmd.idx_offset + cmd.count <= b.idx.len

DrawCallNoOffset(dd, b, cmd, texture) ==
    [vtx_buffer |-> b.vtx.list, vtx_start |-> 0,
     idx_buffer |-> b.idx.list, idx_start |-> cmd.idx_offset,
     idx_end |-> cmd.idx_offset + cmd.count,
     tex |-> texture, blend |-> Blend,
     scissor |-> Scissor(dd, clip_rect(dd, cmd))]

\* the draw call target.draw receives for an Elements command
DrawCall(dd, b, cmd, texture) ==
    [vtx_buffer |-> b.vtx.list, vtx_start |-> cmd.vtx_offset,
     idx_buffer |-> b.idx.list, idx_start |-> cmd.idx_offset,
     idx_end |-> cmd.idx_offset + cmd.count,
     tex |-> texture, blend |-> Blend,
     scissor |-> Scissor(dd, clip_rect(dd, cmd))]

SubmitAlways(t, call, draw_ok) == Append(t, call)

\* target.draw(..): the surface draws the call unless the backend rejects it
Submit(t, call, draw_ok) == IF draw_ok THEN Append(t, call) ELSE t

----------------------------------------------------------------------------
(* Renderer::render: the control flow *)

CurList == draw_data.draw_lists[li]
CurCmd == CurList.cmds[ci]

\* return of render with result r: the buffers of the current list are
\* dropped; li and ci stay where render left the snapshot
Return(r) ==
    /\ result' = r
    /\ pc' = "returned"
    /\ bufs' = NoBufs
    /\ UNCHANGED <<li, ci>>

\* From<vertex::BufferCreationError>, From<index::BufferCreationError>,
\* From<DrawError> for RendererError
FromBackend(e) ==
    CASE e = "vertex" -> VertexErr
      [] e = "index" -> IndexErr
      [] e = "draw" -> DrawErr

\* entry of render up to the first draw list
render_begin ==
    /\ pc = "idle"
    /\ IF FrameSkipped(draw_data)
       THEN Return(Ok)
       ELSE /\ pc' = "lists"
            /\ li' = 1
            /\ UNCHANGED <<ci, bufs, result>>
    /\ UNCHANGED <<draw_data, target, callbacks, backend>>
    /\ UNCHANGED registry_vars

\* head of `for draw_list in draw_data.draw_lists()`: the two buffers of the
\* list are created, either creation may be rejected by the backend
render_draw_list(vtx_ok, idx_ok) ==
    /\ pc = "lists"
    /\ li <= Len(draw_data.draw_lists)
    /\ IF ~vtx_ok
       THEN backend' = "vertex" /\ Return(FromBackend("vertex"))
       ELSE IF ~idx_ok
       THEN backend' = "index" /\ Return(FromBackend("index"))
       ELSE /\ bufs' = [vtx |-> VertexBuffer(draw_data, li),
                        idx |-> IndexBuffer(draw_data, li)]
            /\ ci' = 1
            /\ pc' = "cmds"
            /\ UNCHANGED <<li, result, backend>>
    /\ UNCHANGED <<draw_data, target, callbacks>>
    /\ UNCHANGED registry_vars

\* a render that resolves the texture of a command before it culls it
render_elements_resolve_first(draw_ok) ==
    /\ pc = "cmds"
    /\ ci <= Len(CurList.cmds)
    /\ CurCmd.kind = "Elements"
    /\ LET cr == clip_rect(draw_data, CurCmd)
           tex == lookup_texture(CurCmd.texture_id)
       IN  IF ~tex.ok
           THEN Return(tex.err) /\ UNCHANGED <<target, backend>>
           ELSE IF ~Survives(draw_data, cr)
           THEN /\ ci' = ci + 1
                /\ UNCHANGED <<pc, li, bufs, result, target, backend>>
           ELSE IF ~SlicesValid(bufs, CurCmd)
           THEN Return(Panic) /\ UNCHANGED <<target, backend>>
           ELSE /\ target' = Submit(target,
                        DrawCall(draw_data, bufs, CurCmd, tex.texture),
                        draw_ok)
                /\ IF ~draw_ok
                   THEN backend' = "draw" /\ Return(FromBackend("draw"))
                   ELSE /\ ci' = ci + 1
                        /\ UNCHANGED <<pc, li, bufs, result, backend>>
    /\ UNCHANGED <<draw_data, callbacks>>
    /\ UNCHANGED registry_vars

\* DrawCmd::Elements: cull, resolve the texture, slice the buffers, draw
render_elements(draw_ok) ==
    /\ pc = "cmds"
    /\ ci <= Len(CurList.cmds)
    /\ CurCmd.kind = "Elements"
    /\ LET cr == clip_rect(draw_data, CurCmd)
           tex == lookup_texture(CurCmd.texture_id)
       IN  IF ~Survives(draw_data, cr)
           THEN /\ ci' = ci + 1
                /\ UNCHANGED <<pc, li, bufs, result, target, backend>>
           ELSE IF ~tex.ok
           THEN Return(tex.err) /\ UNCHANGED <<target, backend>>
           ELSE IF ~SlicesValid(bufs, CurCmd)
           THEN Return(Panic) /\ UNCHANGED <<target, backend>>
           ELSE /\ target' = Submit(target,
                        DrawCall(draw_data, bufs, CurCmd, tex.texture),
                        draw_ok)
                /\ IF ~draw_ok
                   THEN backend' = "draw" /\ Return(FromBackend("draw"))
                   ELSE /\ ci' = ci + 1
                        /\ UNCHANGED <<pc, li, bufs, result, backend>>
    /\ UNCHANGED <<draw_data, callbacks>>
    /\ UNCHANGED registry_vars

\* DrawCmd::ResetRenderState => ()
render_reset_render_state ==
    /\ pc = "cmds"
    /\ ci <= Len(CurList.cmds)
    /\ CurCmd.kind = "ResetRenderState"
    /\ ci' = ci + 1
    /\ UNCHANGED <<draw_data, pc, li, bufs, target, callbacks, backend,
                   result>>
    /\ UNCHANGED registry_vars

\* a render that culls callbacks like Elements commands
render_raw_callback_culled ==
    /\ pc = "cmds"
    /\ ci <= Len(CurList.cmds)
    /\ CurCmd.kind = "RawCallback"
    /\ callbacks' =
          IF Survives(draw_data, clip_rect(draw_data, CurCmd))
          THEN Append(callbacks,
                   [callback |-> CurCmd.callback, list |-> li, cmd |-> ci,
                    draws_before |-> Len(target)])
          ELSE callbacks
    /\ ci' = ci + 1
    /\ UNCHANGED <<draw_data, pc, li, bufs, target, backend, result>>
    /\ UNCHANGED registry_vars

\* DrawCmd::RawCallback => callback(draw_list.raw(), raw_cmd)
render_raw_callback ==
    /\ pc = "cmds"
    /\ ci <= Len(CurList.cmds)
    /\ CurCmd.kind = "RawCallback"
    /\ callbacks' = Append(callbacks,
            [callback |-> CurCmd.callback, list |-> li, cmd |-> ci,
             draws_before |-> Len(target)])
    /\ ci' = ci + 1
    /\ UNCHANGED <<draw_data, pc, li, bufs, target, backend, result>>
    /\ UNCHANGED registry_vars

\* end of `for cmd in draw_list.commands()`: the buffers of the list are
\* dropped, the next list follows
render_list_end ==
    /\ pc = "cmds"
    /\ ci > Len(CurList.cmds)
    /\ pc' = "lists"
    /\ li' = li + 1
    /\ ci' = 0
    /\ bufs' = NoBufs
    /\ UNCHANGED <<draw_data, target, callbacks, backend, result>>
    /\ UNCHANGED registry_vars

\* after the last draw list: Ok(())
render_end ==
    /\ pc = "lists"
    /\ li > Len(draw_data.draw_lists)
    /\ Return(Ok)
    /\ UNCHANGED <<draw_data, target, callbacks, backend>>
    /\ UNCHANGED registry_vars

\* ImGui::render's caller is done with the frame: the result and the target
\* are let go, the next frame renders the same snapshot
frame_end ==
    /\ pc = "returned"
    /\ pc' = "idle"
    /\ result' = Pending
    /\ target' = <<>>
    /\ callbacks' = <<>>
    /\ backend' = "none"
    /\ li' = 0
    /\ ci' = 0
    /\ UNCHANGED <<draw_data, bufs>>
    /\ UNCHANGED registry_vars

----------------------------------------------------------------------------
(* Inputs *)

Sentinel == USIZE_MAX

\* a 4 x 3 display at the origin, one framebuffer pixel per logical pixel
PlainSize == <<4, 3>>
PlainPos == <<0, 0>>
PlainScale == <<ScaleDen, ScaleDen>>

\* commands of the multi-list snapshots, on the 4 x 3 display
CmdPool ==
    { Elements(3, <<0, 0, 4, 3>>, Sentinel, 0, 0),
      Elements(3, <<5, 0, 6, 3>>, UnregisteredId, 0, 0),
      Elements(3, <<0 - 1, 0 - 1, 2, 2>>, UnregisteredId, 0, 3),
      Elements(3, <<1, 1, 3, 2>>, 0, 1, 3),
      ResetRenderState,
      RawCallback(1, <<5, 0, 6, 3>>) }

\* a command whose index range ends past the index buffer
BadRangeCmd == Elements(IdxLen, <<0, 0, 4, 3>>, Sentinel, 0, 1)

PlainFrame(draw_lists) ==
    DrawData(PlainSize, PlainPos, PlainScale, draw_lists)

\* frames of one draw list with at most one command
Snapshots ==
    { PlainFrame(<< DrawList(cs) >>) :
        cs \in SeqUpTo(CmdPool \cup {BadRangeCmd}, 1) }

RECURSIVE Sum(_)
Sum(sh) == IF sh = <<>> THEN 0 ELSE sh[1] + Sum(Tail(sh))

\* the numbers of commands of the draw lists of a snapshot: at most MaxLists
\* lists holding at most MaxCmds commands together
Shapes == {sh \in SeqUpTo(0 .. MaxCmds, MaxLists) : Sum(sh) <= MaxCmds}

\* the draw lists of shape sh whose commands, end to end, are flat
ListsOf(sh, flat) ==
    [i \in 1 .. Len(sh) |->
        DrawList(SubSeq(flat, Sum(SubSeq(sh, 1, i - 1)) + 1,
                        Sum(SubSeq(sh, 1, i))))]

\* a frame whose second command asks for indices past the end of the buffer
BadRangeFrame ==
    PlainFrame(<< DrawList(<< Elements(3, <<0, 0, 4, 3>>, Sentinel, 0, 0),
                              BadRangeCmd >>) >>)

\* dd is a frame of several draw lists and commands
IsFrameSnapshot(dd) ==
    \/ \E sh \in Shapes : \E flat \in [1 .. Sum(sh) -> CmdPool] :
          dd = PlainFrame(ListsOf(sh, flat))
    \/ dd = BadRangeFrame

----------------------------------------------------------------------------
(* Specification *)

\* Renderer::new succeeded: the first atlas is uploaded; the startup hook of
\* init (lib.rs) has registered the first k user textures; no frame was
\* rendered yet
InitRenderer(k) ==
    /\ font_texture = AtlasTexture(0)
    /\ uploads = << [ok |-> TRUE, texture |-> AtlasTexture(0)] >>
    /\ textures = [id \in 0 .. (k - 1) |-> UserTexture(1)]
    /\ next = k
    /\ pc = "idle"
    /\ li = 0
    /\ ci = 0
    /\ bufs = NoBufs
    /\ target = <<>>
    /\ callbacks = <<>>
    /\ backend = "none"
    /\ result = Pending

Init ==
    /\ InitRenderer(0)
    /\ draw_data \in Snapshots

InitFrames ==
    /\ \E k \in {0, MaxInserts} : InitRenderer(k)
    /\ IsFrameSnapshot(draw_data)

NextRegistry ==
    \/ \E t \in UserTextures : insert(t)
    \/ \E id \in ReplaceIds, t \in UserTextures : replace(id, t)
    \/ \E id \in RemoveIds : remove(id)
    \/ \E ok \in BOOLEAN : reload_font_texture(ok)

NextRender ==
    \/ render_begin
    \/ \E vtx_ok, idx_ok \in BOOLEAN : render_draw_list(vtx_ok, idx_ok)
    \/ \E draw_ok \in BOOLEAN : render_elements(draw_ok)
    \/ render_reset_render_state
    \/ render_raw_callback
    \/ render_list_end
    \/ render_end
    \/ frame_end

Next == NextRegistry \/ NextRender

\* the renderer over its life: registrations, font reloads and frames of at
\* most one command
Spec == Init /\ [][Next]_vars

\* frames of several draw lists; the registry stays as startup left it
SpecFrames == InitFrames /\ [][NextRender]_vars

----------------------------------------------------------------------------
(* One-command snapshots over a range of geometries *)

\* per axis: display_size, display_pos, framebuffer_scale (in 1/ScaleDen)
AxisGeoms ==
    { <<4, 0, ScaleDen>>,
      <<4, 1, ScaleDen + 1>>,
      <<0, 0, ScaleDen>>,
      <<0 - 4, 0, ScaleDen>>,
      <<0 - 4, 0, 0 - ScaleDen>>,
      <<4, 0, 0>> }

\* clip rectangle edges, in logical coordinates
ClipEdges == {0 - 3, 0, 1, 4, 5}

\* the scenarios of the 800 x 600 frame
Frame800(rect) ==
    DrawData(<<800, 600>>, <<0, 0>>, <<ScaleDen, ScaleDen>>,
             << DrawList(<< Elements(3, rect, Sentinel, 0, 0) >>) >>)
ScenarioCovering == Frame800(<<0 - 10, 0 - 10, 810, 610>>)
ScenarioRightOf == Frame800(<<900, 0, 950, 50>>)

ClipSnapshots ==
    { DrawData(<<gx[1], gy[1]>>, <<gx[2], gy[2]>>, <<gx[3], gy[3]>>,
               << DrawList(<< Elements(3, <<l, t, r, b>>, Sentinel, 0, 0) >>)
               >>) :
        gx \in AxisGeoms, gy \in AxisGeoms,
        l \in ClipEdges, t \in ClipEdges, r \in ClipEdges, b \in ClipEdges }
    \cup {ScenarioCovering, ScenarioRightOf}
    \cup
    { DrawData(PlainSize, PlainPos, PlainScale,
               << DrawList(<< ResetRenderState,
                              RawCallback(1, <<5, 0, 6, 3>>),
                              Elements(3, <<l, 0, r, 3>>, Sentinel, 0, 0) >>)
               >>) :
        l \in ClipEdges, r \in ClipEdges }

InitClip ==
    /\ InitRenderer(0)
    /\ draw_data \in ClipSnapshots

\* frames of one command each; the registry stays as Renderer::new left it
SpecClip == InitClip /\ [][NextRender]_vars

----------------------------------------------------------------------------
(* What the claims speak about *)

RECURSIVE AllPos(_, _)
\* the positions <<list, command>> of the first m draw lists, in snapshot order
AllPos(dd, m) ==
    IF m = 0 THEN <<>>
    ELSE AllPos(dd, m - 1) \o
         [k \in 1 .. Len(dd.draw_lists[m].cmds) |-> <<m, k>>]

\* the positions render has finished with in this frame: every command before
\* <<li, ci>> (ci is 0 while render is between the commands of two lists)
Processed ==
    IF li = 0 THEN <<>>
    ELSE AllPos(draw_data, li - 1) \o
         [k \in 1 .. (Max(ci, 1) - 1) |-> <<li, k>>]

CmdAt(p) == draw_data.draw_lists[p[1]].cmds[p[2]]
IsElements(p) == CmdAt(p).kind = "Elements"
\* the transformed clip rectangle <<l, t, r, b>> of the command at p
RectAt(p) == clip_rect(draw_data, CmdAt(p))

\* render returned because the command at <<li, ci>> failed
CmdFailed ==
    pc = "returned" /\ result.tag \in {"BadTexture", "Draw", "Panic"}

\* the closed interval [lo, hi] meets [0, ext): both ends are whole numbers
\* of units, so a common point exists exactly when a common unit exists
MeetsAxis(lo, hi, ext) == \E x \in 0 .. (ext - 1) : lo <= x /\ x <= hi
\* the rectangle cr, as the set of points l <= x <= r, t <= y <= b, meets
\* [0, fb_width) x [0, fb_height)
MeetsFramebuffer(cr) ==
    /\ MeetsAxis(cr[1], cr[3], fb_width(draw_data))
    /\ MeetsAxis(cr[2], cr[4], fb_height(draw_data))
WellFormed(cr) == cr[1] <= cr[3] /\ cr[2] <= cr[4]

\* what identifies the geometry a draw call draws
DrawKey(d) ==
    [vtx_buffer |-> d.vtx_buffer, vtx_start |-> d.vtx_start,
     idx_buffer |-> d.idx_buffer, idx_start |-> d.idx_start,
     idx_end |-> d.idx_end]
\* the geometry the command at p asks for
CmdKey(p) ==
    [vtx_buffer |-> p[1], vtx_start |-> CmdAt(p).vtx_offset,
     idx_buffer |-> p[1], idx_start |-> CmdAt(p).idx_offset,
     idx_end |-> CmdAt(p).idx_offset + CmdAt(p).count]
MapSeq(seq, F(_)) == [k \in 1 .. Len(seq) |-> F(seq[k])]

----------------------------------------------------------------------------
(* C1 *)

NonPositiveSize(dd) == dd.display_size[1] <= 0 \/ dd.display_size[2] <= 0
\* a component of display_size is non-positive and its scale is not negative
NonPositiveFrame(dd) ==
    \E i \in 1 .. 2 : dd.display_size[i] <= 0 /\ dd.framebuffer_scale[i] >= 0

\* C1 as claimed: a snapshot whose display_size has a non-positive component
\* gets no draw call and render returns Ok, whatever its framebuffer_scale
\* (stated for the frames in which the backend rejects nothing).
C1_SkipsNonPositiveSize ==
    (NonPositiveSize(draw_data) /\ backend = "none") =>
        /\ target = <<>>
        /\ pc = "returned" => result = Ok

\* C1 amended: a snapshot with a component i where display_size[i] <= 0 and
\* framebuffer_scale[i] >= 0 gets no draw call, no buffer, no callback, and
\* render returns Ok at once.
C1_SkipsNonPositiveFrame ==
    NonPositiveFrame(draw_data) =>
        /\ pc \in {"idle", "returned"}
        /\ target = <<>>
        /\ callbacks = <<>>
        /\ backend = "none"
        /\ pc = "returned" => result = Ok

\* render returned for a frame of negative width that holds a command whose
\* clip rectangle covers the display
C1_Witness ==
    /\ pc = "returned"
    /\ draw_data.display_size[1] < 0
    /\ draw_data.framebuffer_scale[1] > 0
    /\ draw_data.display_size[2] > 0
    /\ draw_data.framebuffer_scale[2] > 0
    /\ Len(draw_data.draw_lists) = 1
    /\ CmdAt(<<1, 1>>).clip_rect = <<0, 0, 4, 4>>

----------------------------------------------------------------------------
(* C2 *)

\* the draw calls are those of the processed Elements commands that pass Test
DrawsAre(Test(_)) ==
    /\ MapSeq(target, DrawKey) =
           MapSeq(SelectSeq(Processed, LAMBDA p : IsElements(p) /\ Test(p)),
                  CmdKey)
    /\ CmdFailed => Test(<<li, ci>>)

\* a display of positive size and positive scale
OrdinaryFrame(dd) ==
    \A i \in 1 .. 2 : dd.display_size[i] > 0 /\ dd.framebuffer_scale[i] > 0

\* C2 as claimed: an Elements command is drawn (or fails past the culling
\* test) exactly when its transformed clip rectangle meets
\* [0, fb_width) x [0, fb_height) (stated for the frames of positive size and
\* scale).
C2_CullingExact ==
    OrdinaryFrame(draw_data) =>
        DrawsAre(LAMBDA p : MeetsFramebuffer(RectAt(p)))

\* C2 amended: the same, for the frames whose transformed clip rectangles all
\* have l <= r and t <= b; and the frame of the scenario with clip rectangle
\* [900, 0, 950, 50] gets no draw call.
C2_CullingExactWellFormed ==
    /\ (\A i \in 1 .. Len(draw_data.draw_lists) :
          \A j \in 1 .. Len(draw_data.draw_lists[i].cmds) :
             IsElements(<<i, j>>) => WellFormed(RectAt(<<i, j>>)))
       => DrawsAre(LAMBDA p : MeetsFramebuffer(RectAt(p)))
    /\ draw_data = ScenarioRightOf => target = <<>>

\* a command whose rectangle touches the framebuffer only along x = 0 was
\* drawn
C2_Witness ==
    /\ Len(target) = 1
    /\ Processed = << <<1, 1>> >>
    /\ WellFormed(RectAt(<<1, 1>>))
    /\ RectAt(<<1, 1>>)[1] < 0
    /\ RectAt(<<1, 1>>)[3] = 0

----------------------------------------------------------------------------
(* C3 *)

\* C3: every scissor rectangle handed to the backend has left >= 0 and
\* bottom >= 0; the 800 x 600 frame with clip rectangle [-10, -10, 810, 610]
\* that renders without a backend rejection ends with exactly one draw call,
\* whose scissor origin is (0, 0).
C3_ScissorOriginNonNegative ==
    /\ \A k \in 1 .. Len(target) :
          target[k].scissor.left >= 0 /\ target[k].scissor.bottom >= 0
    /\ (draw_data = ScenarioCovering /\ pc = "returned" /\ result = Ok) =>
          /\ Len(target) = 1
          /\ target[1].scissor.left = 0
          /\ target[1].scissor.bottom = 0

\* a draw call whose command's rectangle starts left of the framebuffer and
\* ends below it
C3_Witness ==
    /\ Len(target) = 1
    /\ Processed = << <<1, 1>> >>
    /\ RectAt(<<1, 1>>)[1] < 0
    /\ RectAt(<<1, 1>>)[4] > fb_height(draw_data)
    /\ target[1].scissor.left = 0
    /\ target[1].scissor.bottom = 0

----------------------------------------------------------------------------
(* C10 *)

\* n = floor(x / ScaleDen), n = ceil(x / ScaleDen), by their defining bounds
IsFloorOf(n, x) == n * ScaleDen <= x /\ x < (n + 1) * ScaleDen
IsCeilOf(n, x) == (n - 1) * ScaleDen < x /\ x <= n * ScaleDen

\* the scissor sc is the one the claim gives for the rectangle cr
ScissorAsClaimed(sc, cr) ==
    /\ IsFloorOf(sc.left, Max(0, cr[1]))
    /\ IsFloorOf(sc.bottom, Max(0, fb_height(draw_data) - cr[4]))
    /\ IsCeilOf(sc.width, Abs(cr[3] - cr[1]))
    /\ IsCeilOf(sc.height, Abs(cr[4] - cr[2]))

\* the processed Elements commands that passed the culling test, in order
Survivors ==
    SelectSeq(Processed,
              LAMBDA p : IsElements(p) /\ Survives(draw_data, RectAt(p)))

\* C10: the k-th draw call carries the scissor of the k-th surviving command:
\* left = floor(max(0, l)), bottom = floor(max(0, fb_height - b)),
\* width = ceil(|r - l|), height = ceil(|b - t|).
C10_ScissorFormula ==
    /\ Len(target) = Len(Survivors)
    /\ \A k \in 1 .. Len(target) :
          ScissorAsClaimed(target[k].scissor, RectAt(Survivors[k]))

\* a draw call whose origin was clamped on both axes, whose width is more
\* than what is left of the rectangle right of x = 0, and whose edges are not
\* whole pixels
C10_Witness ==
    /\ Len(target) = 1
    /\ Processed = << <<1, 1>> >>
    /\ RectAt(<<1, 1>>)[1] < 0
    /\ RectAt(<<1, 1>>)[4] > fb_height(draw_data)
    /\ RectAt(<<1, 1>>)[3] > 0
    /\ target[1].scissor.width * ScaleDen > RectAt(<<1, 1>>)[3]
    /\ RectAt(<<1, 1>>)[3] % ScaleDen # 0

----------------------------------------------------------------------------
(* C4 *)

\* the atlas of the most recent font upload that succeeded
LatestAtlas ==
    LET oks == SelectSeq(uploads, LAMBDA u : u.ok)
    IN  oks[Len(oks)].texture

\* C4: whatever was inserted, replaced, removed or reloaded, the sentinel
\* resolves to the atlas of the most recent successful upload, and a draw
\* call of a command that names the sentinel samples that atlas.
C4_SentinelIsCurrentAtlas ==
    /\ lookup_texture(USIZE_MAX) = Found(LatestAtlas)
    /\ \A k \in 1 .. Len(target) :
          (Len(target) = Len(Survivors)
           /\ CmdAt(Survivors[k]).texture_id = USIZE_MAX)
          => target[k].tex = LatestAtlas

\* the registry holds an entry under the sentinel's own number, the atlas
\* was reloaded, and a command naming the sentinel was drawn
C4_Witness ==
    /\ USIZE_MAX \in DOMAIN textures
    /\ Len(uploads) = 2
    /\ uploads[2].ok
    /\ Len(target) = 1
    /\ CmdAt(Survivors[1]).texture_id = USIZE_MAX

----------------------------------------------------------------------------
(* C5 *)

ProbeIds == 0 .. (MaxInserts + 6) \cup {USIZE_MAX - 1, USIZE_MAX}

\* C5: an identifier that is neither the sentinel nor a key of the registry
\* resolves to BadTexture of that identifier, and to no texture.
C5_UnknownIdIsBadTexture ==
    \A id \in ProbeIds :
        (id # USIZE_MAX /\ id \notin DOMAIN textures) =>
            lookup_texture(id) = Missing(BadTexture(id))

\* identifier 0 was issued and removed again while another entry is
\* registered
C5_Witness ==
    /\ next = 1
    /\ 0 \notin DOMAIN textures
    /\ USIZE_MAX \in DOMAIN textures

----------------------------------------------------------------------------
(* C6 *)

\* C6: right after insert(t) returns id, id resolves to t; right after
\* remove(id) of an identifier insert has returned, id resolves to
\* BadTexture(id); whatever else is registered.
C6_InsertResolveRemove ==
    [][ /\ \A t \in UserTextures :
              insert(t) => Lookup(font_texture', textures', next) = Found(t)
        /\ \A id \in 0 .. (next - 1) :
              remove(id) =>
                  Lookup(font_texture', textures', id) =
                      Missing(BadTexture(id)) ]_vars

\* an identifier that insert returned is gone from the registry, which
\* still holds another entry
C6_Witness ==
    /\ next = 1
    /\ 0 \notin DOMAIN textures
    /\ DOMAIN textures # {}
    /\ ~lookup_texture(0).ok

----------------------------------------------------------------------------
(* C7 *)

\* all Elements commands of the snapshot that pass the culling test
AllSurvivors ==
    SelectSeq(AllPos(draw_data, Len(draw_data.draw_lists)),
              LAMBDA p : IsElements(p) /\ Survives(draw_data, RectAt(p)))

\* a is b or b with more behind it
IsPrefix(a, b) ==
    Len(a) <= Len(b) /\ \A k \in 1 .. Len(a) : a[k] = b[k]

Failed == pc = "returned" /\ result # Ok

\* the state render leaves behind when a sub-step failed
FailureState ==
    /\ backend = "vertex" => (Failed /\ result = VertexErr /\ ci = 0)
    /\ backend = "index" => (Failed /\ result = IndexErr /\ ci = 0)
    /\ backend = "draw" =>
          (Failed /\ result = DrawErr /\ IsElements(<<li, ci>>))
    /\ (Failed /\ result.tag = "BadTexture") =>
          /\ IsElements(<<li, ci>>)
          /\ result = BadTexture(CmdAt(<<li, ci>>).texture_id)
          /\ ~lookup_texture(result.id).ok
    /\ Failed =>
          /\ MapSeq(target, DrawKey) = MapSeq(Survivors, CmdKey)
          /\ IsPrefix(Survivors, AllSurvivors)

\* C7: a rejected vertex buffer, index buffer or draw call and an
\* unresolvable texture make render return Vertex, Index, Draw or BadTexture;
\* the step that fails adds no draw call, the draw calls of the commands
\* before it stay, and nothing is drawn once render has returned.
C7_FailureAborts ==
    [][ /\ FailureState'
        /\ (pc # "returned" /\ pc' = "returned" /\ result' # Ok) =>
              target' = target
        /\ (pc = "cmds" /\ ci <= Len(draw_data.draw_lists[li].cmds)
            /\ IsElements(<<li, ci>>)
            /\ Survives(draw_data, RectAt(<<li, ci>>))
            /\ ~lookup_texture(CmdAt(<<li, ci>>).texture_id).ok) =>
              (pc' = "returned"
               /\ result' = BadTexture(CmdAt(<<li, ci>>).texture_id))
        /\ pc = "returned" => (target' = target \/ target' = <<>>) ]_vars

\* the draw call of the second list's command was rejected after the first
\* list's command had been drawn
C7_Witness ==
    /\ pc = "returned"
    /\ result = DrawErr
    /\ li = 2
    /\ Len(target) = 1
    /\ Len(AllSurvivors) = 2

----------------------------------------------------------------------------
(* C8 *)

\* C8: when render returns Ok, the draw calls are those of the surviving
\* Elements commands, one each, lists in snapshot order and commands in list
\* order, each on the buffers of its own list from the command's offsets.
C8_DrawOrder ==
    (pc = "returned" /\ result = Ok) =>
        MapSeq(target, DrawKey) =
            IF FrameSkipped(draw_data) THEN <<>>
            ELSE MapSeq(AllSurvivors, CmdKey)

\* three draw calls: two commands of the first list with different offsets,
\* then one of the second list
C8_Witness ==
    /\ pc = "returned"
    /\ result = Ok
    /\ Len(target) = 3
    /\ target[1].vtx_buffer = 1
    /\ target[1].vtx_start = 1
    /\ target[2].vtx_buffer = 1
    /\ target[2].vtx_start = 0
    /\ target[3].vtx_buffer = 2

----------------------------------------------------------------------------
(* C9 *)

\* C9 as claimed: every draw call blends colour and alpha alike, by addition
\* with source factor One and destination factor OneMinusSourceAlpha.
C9_BlendOneBothChannels ==
    \A k \in 1 .. Len(target) :
        /\ target[k].blend.color = Addition("One", "OneMinusSourceAlpha")
        /\ target[k].blend.alpha = Addition("One", "OneMinusSourceAlpha")

\* C9 amended: every draw call blends by addition with destination factor
\* OneMinusSourceAlpha on both channels; the source factor is One on the
\* alpha channel and SourceAlpha on the colour channel.
C9_BlendSeparateSource ==
    \A k \in 1 .. Len(target) :
        /\ target[k].blend.color =
               Addition("SourceAlpha", "OneMinusSourceAlpha")
        /\ target[k].blend.alpha = Addition("One", "OneMinusSourceAlpha")

\* two draw calls were issued in one frame
C9_Witness ==
    /\ Len(target) = 2
    /\ pc = "returned"

----------------------------------------------------------------------------
(* C11 *)

IsRawCallback(p) == CmdAt(p).kind = "RawCallback"
\* position p comes before position q in snapshot order
Before(p, q) == p[1] < q[1] \/ (p[1] = q[1] /\ p[2] < q[2])
\* the RawCallback commands among the positions ps
CallbacksOf(ps) == SelectSeq(ps, IsRawCallback)
\* one invocation of the callback of the command at p, with the draw list and
\* the command of p, after the draw calls of the surviving commands before p
InvocationOf(p) ==
    [callback |-> CmdAt(p).callback, list |-> p[1], cmd |-> p[2],
     draws_before |->
         Len(SelectSeq(AllSurvivors, LAMBDA q : Before(q, p)))]

\* C11 as claimed: once render has returned, every RawCallback command of the
\* snapshot has had its callback invoked exactly once (stated for the frames
\* in which the backend rejects nothing).
C11_EveryCallbackInvoked ==
    (pc = "returned" /\ backend = "none") =>
        callbacks =
            MapSeq(CallbacksOf(AllPos(draw_data, Len(draw_data.draw_lists))),
                   InvocationOf)

\* C11 amended: the callbacks invoked are those of the RawCallback commands
\* render has gone through (all of them when render returns Ok from a frame
\* it did not skip), once each in command order, each with its own draw list
\* and command and after exactly the draw calls of the commands before it,
\* whatever its clip rectangle; the draw calls are those of Elements commands
\* only, and a command that makes render fail is an Elements command.
C11_CallbacksOfProcessed ==
    /\ callbacks = MapSeq(CallbacksOf(Processed), InvocationOf)
    /\ Len(target) <= Len(SelectSeq(Processed, IsElements))
    /\ CmdFailed => IsElements(<<li, ci>>)
    /\ (pc = "returned" /\ result = Ok /\ ~FrameSkipped(draw_data)) =>
          Processed = AllPos(draw_data, Len(draw_data.draw_lists))

\* render returned Ok after a draw call, then a callback whose clip rectangle
\* lies right of the framebuffer, then a second draw call
C11_Witness ==
    /\ pc = "returned"
    /\ result = Ok
    /\ Len(target) = 2
    /\ Len(callbacks) = 1
    /\ callbacks[1].draws_before = 1
    /\ ~Survives(draw_data,
                 clip_rect(draw_data,
                           CmdAt(<<callbacks[1].list, callbacks[1].cmd>>)))

----------------------------------------------------------------------------
(* C12 *)

Unresolvable(p) == ~lookup_texture(CmdAt(p).texture_id).ok
\* the surviving Elements commands of the snapshot whose identifier does not
\* resolve, in snapshot order
UnresolvableSurvivors == SelectSeq(AllSurvivors, Unresolvable)
\* an Elements command of the snapshot that is culled and names an
\* identifier that is neither the sentinel nor registered
HasCulledUnregistered ==
    \E p \in { AllPos(draw_data, Len(draw_data.draw_lists))[k] :
                  k \in 1 .. Len(AllPos(draw_data,
                                        Len(draw_data.draw_lists))) } :
        /\ IsElements(p)
        /\ ~Survives(draw_data, RectAt(p))
        /\ Unresolvable(p)

\* C12: a command at which render returns BadTexture is an Elements command
\* that passed the culling test, so a culled command never makes render
\* fail; and when render has returned from a frame it did not skip, with no
\* buffer or draw call rejected and no invalid buffer range, it returned
\* BadTexture(id) exactly when some surviving Elements command names an
\* unresolvable id, id being that of the first such command in snapshot
\* order, and Ok otherwise. A skipped frame returns Ok.
C12_BadTextureOnlyFromSurvivors ==
    /\ (pc = "returned" /\ result.tag = "BadTexture") =>
          /\ IsElements(<<li, ci>>)
          /\ Survives(draw_data, RectAt(<<li, ci>>))
    /\ (pc = "returned" /\ backend = "none" /\ result # Panic) =>
          IF FrameSkipped(draw_data) \/ UnresolvableSurvivors = <<>>
          THEN result = Ok
          ELSE /\ result =
                     BadTexture(CmdAt(UnresolvableSurvivors[1]).texture_id)
               /\ <<li, ci>> = UnresolvableSurvivors[1]

\* render returned BadTexture of the second of two surviving commands with
\* different unresolvable identifiers, after it went past a culled command
\* with an unregistered identifier
C12_Witness ==
    /\ pc = "returned"
    /\ Len(UnresolvableSurvivors) = 2
    /\ CmdAt(UnresolvableSurvivors[1]).texture_id #
           CmdAt(UnresolvableSurvivors[2]).texture_id
    /\ result = BadTexture(CmdAt(UnresolvableSurvivors[1]).texture_id)
    /\ IsElements(<<1, 1>>)
    /\ ~Survives(draw_data, RectAt(<<1, 1>>))
    /\ Unresolvable(<<1, 1>>)
    /\ <<li, ci>> # <<1, 1>>

\* render returned Ok from a frame whose only Elements command is culled
\* and names an unregistered identifier
C12_WitnessCulledOk ==
    /\ pc = "returned"
    /\ result = Ok
    /\ HasCulledUnregistered
    /\ UnresolvableSurvivors = <<>>

====
